---- MODULE Spec2Model ----
(***************************************************************************)
(* A model of tordesc: the Tor server-descriptor parser.                   *)
(*                                                                         *)
(* Text is modelled as TLA+ strings, parsed character by character.  The   *)
(* grammar is written with the nom 1.2 macros; every named! parser of the  *)
(* source is one operator here, returning a nom IResult:                   *)
(*      Done(rest, val)   the parser matched, rest is the unconsumed input *)
(*      Error             the parser did not match                         *)
(*      Incomplete        the input ended before the parser could decide  *)
(* Option<T> is modelled as a sequence of length 0 (None) or 1 (Some(v)).  *)
(***************************************************************************)
EXTENDS Integers, Sequences, FiniteSets, TLC

----------------------------------------------------------------------------
(* nom::IResult and Option *)

Done(rest, val) == [t |-> "Done", rest |-> rest, val |-> val]
Error == [t |-> "Error"]
Incomplete == [t |-> "Incomplete"]

None == <<>>
Some(v) == <<v>>

----------------------------------------------------------------------------
(* Character classes of the nom primitives *)

Digits == {"0", "1", "2", "3", "4", "5", "6", "7", "8", "9"}

Lower ==
    {"a", "b", "c", "d", "e", "f", "g", "h", "i", "j", "k", "l", "m",
     "n", "o", "p", "q", "r", "s", "t", "u", "v", "w", "x", "y", "z"}

Upper ==
    {"A", "B", "C", "D", "E", "F", "G", "H", "I", "J", "K", "L", "M",
     "N", "O", "P", "Q", "R", "S", "T", "U", "V", "W", "X", "Y", "Z"}

AlphaNum == Digits \cup Lower \cup Upper

HexDigits == Digits \cup {"a", "b", "c", "d", "e", "f", "A", "B", "C", "D", "E", "F"}

SpaceChars == {" ", "\t"}

LineEndChars == {"\r", "\n"}

(* Length of the longest prefix of s made of characters of cs. *)
RECURSIVE Span(_, _)
Span(s, cs) ==
    IF s = "" THEN 0
    ELSE IF Head(s) \in cs THEN 1 + Span(Tail(s), cs) ELSE 0

(* Length of the longest prefix of s made of characters outside cs. *)
RECURSIVE SpanNot(_, _)
SpanNot(s, cs) ==
    IF s = "" THEN 0
    ELSE IF Head(s) \notin cs THEN 1 + SpanNot(Tail(s), cs) ELSE 0

Take(s, n) == SubSeq(s, 1, n)
Drop(s, n) == SubSeq(s, n + 1, Len(s))

(* The part of input a parser consumed (nom recognize!). *)
Consumed(input, rest) == Take(input, Len(input) - Len(rest))

----------------------------------------------------------------------------
(* nom 1.2 primitives used by the grammar *)

(* tag!: Error on a mismatch within the available input, Incomplete when  *)
(* the input is a proper prefix of the tag, Done otherwise.               *)
tag(input, lit) ==
    LET m == IF Len(input) < Len(lit) THEN Len(input) ELSE Len(lit)
    IN  IF Take(input, m) # Take(lit, m) THEN Error
        ELSE IF m < Len(lit) THEN Incomplete
        ELSE Done(Drop(input, Len(lit)), lit)

(* The run parsers (digit, hex_digit, alphanumeric, space): Error when    *)
(* the first character is outside the class, otherwise the maximal run;   *)
(* on empty input they match the empty run.                               *)
run(input, cs) ==
    LET n == Span(input, cs)
    IN  IF input # "" /\ n = 0 THEN Error
        ELSE Done(Drop(input, n), Take(input, n))

digit(input) == run(input, Digits)
hex_digit(input) == run(input, HexDigits)
alphanumeric(input) == run(input, AlphaNum)
space(input) == run(input, SpaceChars)

line_ending(input) == tag(input, "\n")

not_line_ending(input) ==
    LET n == SpanNot(input, LineEndChars)
    IN  Done(Drop(input, n), Take(input, n))

(* opt!: Error becomes Done(None); Incomplete is passed on. *)
opt(input, r) ==
    IF r.t = "Done" THEN Done(r.rest, Some(r.val))
    ELSE IF r.t = "Error" THEN Done(input, None)
    ELSE Incomplete

(* complete!: Incomplete becomes Error. *)
complete(r) == IF r.t = "Incomplete" THEN Error ELSE r

(* chain!: the next step runs on what a Done step left; an Error or an    *)
(* Incomplete step ends the chain with that result.                       *)
chain(r, K(_)) == IF r.t # "Done" THEN r ELSE K(r)

(* alt!: the first alternative that is Done or Incomplete decides. *)
alt(a, b) == IF a.t # "Error" THEN a ELSE b

(* map!: the value of a Done result is replaced. *)
map(r, F(_)) == IF r.t # "Done" THEN r ELSE Done(r.rest, F(r.val))

(* The result r of a child parser, handed to the repetition around it. *)
with(r, K(_)) == K(r)

----------------------------------------------------------------------------
(* src/document.rs: the document meta-format (Item grammar) *)

keyword_char(input) == alt(alphanumeric(input), tag(input, "-"))

object_char(input) == alt(alphanumeric(input), space(input))

base64_char(input) ==
    alt(alphanumeric(input),
        alt(tag(input, "/"), alt(tag(input, "+"), tag(input, "="))))

base64_or_eol(input) == alt(base64_char(input), line_ending(input))

char_parser(kind, input) ==
    CASE kind = "keyword_char" -> keyword_char(input)
      [] kind = "object_char"  -> object_char(input)
      [] kind = "base64"       -> base64_or_eol(input)

(* The loop of many1!/many0! after a first match: stop with Done at the   *)
(* end of input, on an Error of the child or when the child consumes      *)
(* nothing; an Incomplete child makes the whole repetition Incomplete.    *)
RECURSIVE many_chars_loop(_, _)
many_chars_loop(kind, input) ==
    with(char_parser(kind, input), LAMBDA r :
        IF r.t = "Incomplete" THEN Incomplete
        ELSE IF r.t = "Error" THEN Done(input, "")
        ELSE IF Len(r.rest) = Len(input) THEN Done(input, "")
        ELSE IF r.rest = "" THEN Done("", "")
        ELSE many_chars_loop(kind, r.rest))

(* recognize!(many1!(child)): the text matched by one or more children. *)
recognize_many1(kind, input) ==
    chain(char_parser(kind, input), LAMBDA r :
        IF r.rest = "" THEN Done("", input)
        ELSE chain(many_chars_loop(kind, r.rest), LAMBDA l :
                 Done(l.rest, Consumed(input, l.rest))))

keyword(input) == recognize_many1("keyword_char", input)

(* A keyword_args that keeps the spaces in front of the arguments. *)
keyword_args_unskipped(input) ==
    chain(space(input), LAMBDA s :
        map(not_line_ending(s.rest), LAMBDA args : s.val \o args))

keyword_args(input) ==
    chain(space(input), LAMBDA s : not_line_ending(s.rest))

keyword_line(input) ==
    chain(keyword(input), LAMBDA key :
    chain(opt(key.rest, keyword_args(key.rest)), LAMBDA args :
    chain(line_ending(args.rest), LAMBDA nl :
        Done(nl.rest, [key |-> key.val, args |-> args.val]))))

object_type(input) == recognize_many1("object_char", input)

base64_encoding(input) == recognize_many1("base64", input)

(* "-----BEGIN " / "-----END " marker lines. *)
object_line(input, marker) ==
    chain(tag(input, marker), LAMBDA a :
    chain(object_type(a.rest), LAMBDA ty :
    chain(tag(ty.rest, "-----"), LAMBDA b :
    chain(line_ending(b.rest), LAMBDA nl :
        Done(nl.rest, Consumed(input, nl.rest))))))

object_beginline(input) == object_line(input, "-----BEGIN ")

object_endline(input) == object_line(input, "-----END ")

(* An object grammar that keeps the body and drops the armor lines. *)
object_body_only(input) ==
    chain(object_beginline(input), LAMBDA b :
    chain(base64_encoding(b.rest), LAMBDA body :
    chain(object_endline(body.rest), LAMBDA e :
        Done(e.rest, body.val))))

object(input) ==
    chain(object_beginline(input), LAMBDA b :
    chain(base64_encoding(b.rest), LAMBDA body :
    chain(object_endline(body.rest), LAMBDA e :
        Done(e.rest, Consumed(input, e.rest)))))

(* An Item: a keyword line and at most one object.  objs is the list of   *)
(* the Item's objects as the dispatcher reads it (objs.len(), objs[0]).   *)
item(input) ==
    chain(keyword_line(input), LAMBDA kl :
    chain(opt(kl.rest, object(kl.rest)), LAMBDA obj :
        Done(obj.rest,
             [key |-> kl.val.key, args |-> kl.val.args, objs |-> obj.val])))

----------------------------------------------------------------------------
(* src/grammar.rs: decimal tokenizers and IPv4 addresses *)

DigitVal(c) ==
    CASE c = "0" -> 0 [] c = "1" -> 1 [] c = "2" -> 2 [] c = "3" -> 3
      [] c = "4" -> 4 [] c = "5" -> 5 [] c = "6" -> 6 [] c = "7" -> 7
      [] c = "8" -> 8 [] c = "9" -> 9
      [] c \in {"a", "A"} -> 10 [] c \in {"b", "B"} -> 11
      [] c \in {"c", "C"} -> 12 [] c \in {"d", "D"} -> 13
      [] c \in {"e", "E"} -> 14 [] c \in {"f", "F"} -> 15

U8Max == 255
U16Max == 65535
U64MaxText == "18446744073709551615"

(* The value of the digit run s in the given radix, computed left to     *)
(* right as from_str does; any value above max is reported as max + 1.   *)
RECURSIVE RadixValue(_, _, _, _)
RadixValue(s, radix, max, acc) ==
    IF s = "" THEN acc
    ELSE LET v == acc * radix + DigitVal(Head(s))
         IN  IF v > max THEN max + 1 ELSE RadixValue(Tail(s), radix, max, v)

(* Variant: a value above max is reduced modulo max + 1. *)
from_str_wrapping(s, radix, max) ==
    IF s = "" THEN None ELSE Some(RadixValue(s, radix, max, 0) % (max + 1))

(* FromStr::from_str / from_str_radix for an unsigned type of maximum     *)
(* max: fails on the empty string and on overflow.                        *)
from_str(s, radix, max) ==
    IF s = "" THEN None
    ELSE LET v == RadixValue(s, radix, max, 0)
         IN  IF v > max THEN None ELSE Some(v)

(* map_res!(run, from_str): Error when the conversion fails. *)
number(r, radix, max) ==
    chain(r, LAMBDA ds :
        with(from_str(ds.val, radix, max), LAMBDA v :
            IF v = None THEN Error ELSE Done(ds.rest, v[1])))

u8_digit(input) == number(digit(input), 10, U8Max)

u16_digit(input) == number(digit(input), 10, U16Max)

(* A u64 does not fit the model checker's integers: its value is kept as  *)
(* the decimal numeral without leading zeros.                             *)
RECURSIVE StripZeros(_)
StripZeros(s) ==
    IF Len(s) > 1 /\ Head(s) = "0" THEN StripZeros(Tail(s)) ELSE s

(* Numerals of equal length: a <= b. *)
RECURSIVE NumeralLeq(_, _)
NumeralLeq(a, b) ==
    IF a = "" THEN TRUE
    ELSE IF DigitVal(Head(a)) < DigitVal(Head(b)) THEN TRUE
    ELSE IF DigitVal(Head(a)) > DigitVal(Head(b)) THEN FALSE
    ELSE NumeralLeq(Tail(a), Tail(b))

from_str_u64(s) ==
    IF s = "" THEN None
    ELSE LET n == StripZeros(s)
         IN  IF Len(n) < Len(U64MaxText) THEN Some(n)
             ELSE IF Len(n) = Len(U64MaxText) /\ NumeralLeq(n, U64MaxText) THEN Some(n)
             ELSE None

u64_digit(input) ==
    chain(digit(input), LAMBDA r :
        with(from_str_u64(r.val), LAMBDA v :
            IF v = None THEN Error ELSE Done(r.rest, v[1])))

ipv4_addr(input) ==
    chain(u8_digit(input), LAMBDA a :
    chain(tag(a.rest, "."), LAMBDA d1 :
    chain(u8_digit(d1.rest), LAMBDA b :
    chain(tag(b.rest, "."), LAMBDA d2 :
    chain(u8_digit(d2.rest), LAMBDA c :
    chain(tag(c.rest, "."), LAMBDA d3 :
    chain(u8_digit(d3.rest), LAMBDA d :
        Done(d.rest, <<a.val, b.val, c.val, d.val>>))))))))

----------------------------------------------------------------------------
(* src/server_descriptor/exit_policy.rs: the exit-pattern grammar *)

ipv4_numbits(input) == u8_digit(input)

ipv6_numbits(input) == u8_digit(input)

ipv4_spec_addr(input) ==
    map(ipv4_addr(input), LAMBDA a : [kind |-> "Addr", addr |-> a])

ipv4_spec_cidr(input) ==
    chain(ipv4_addr(input), LAMBDA addr :
    chain(tag(addr.rest, "/"), LAMBDA sl :
    chain(ipv4_numbits(sl.rest), LAMBDA bits :
        Done(bits.rest, [kind |-> "CIDR", addr |-> addr.val, prefix |-> bits.val]))))

(* Variant: the plain address is tried before the CIDR form. *)
ipv4_spec_addr_first(input) == alt(ipv4_spec_addr(input), ipv4_spec_cidr(input))

ipv4_spec(input) == alt(ipv4_spec_cidr(input), ipv4_spec_addr(input))

(* Variant: a group above ffff wraps around. *)
u16_hex_digit_wrapping(input) ==
    map(hex_digit(input), LAMBDA h : RadixValue(h, 16, U16Max, 0) % (U16Max + 1))

u16_hex_digit(input) == number(hex_digit(input), 16, U16Max)

ipv6_addr(input) ==
    chain(tag(input, "["), LAMBDA op :
    chain(u16_hex_digit(op.rest), LAMBDA a :
    chain(tag(a.rest, ":"), LAMBDA s1 :
    chain(u16_hex_digit(s1.rest), LAMBDA b :
    chain(tag(b.rest, ":"), LAMBDA s2 :
    chain(u16_hex_digit(s2.rest), LAMBDA c :
    chain(tag(c.rest, ":"), LAMBDA s3 :
    chain(u16_hex_digit(s3.rest), LAMBDA d :
    chain(tag(d.rest, ":"), LAMBDA s4 :
    chain(u16_hex_digit(s4.rest), LAMBDA e :
    chain(tag(e.rest, ":"), LAMBDA s5 :
    chain(u16_hex_digit(s5.rest), LAMBDA f :
    chain(tag(f.rest, ":"), LAMBDA s6 :
    chain(u16_hex_digit(s6.rest), LAMBDA g :
    chain(tag(g.rest, ":"), LAMBDA s7 :
    chain(u16_hex_digit(s7.rest), LAMBDA h :
    chain(tag(h.rest, "]"), LAMBDA cl :
        Done(cl.rest,
             <<a.val, b.val, c.val, d.val, e.val, f.val, g.val, h.val>>))))))))))))))))))

ipv6_spec_addr(input) ==
    map(ipv6_addr(input), LAMBDA a : [kind |-> "Addr", addr |-> a])

ipv6_spec_cidr(input) ==
    chain(ipv6_addr(input), LAMBDA addr :
    chain(tag(addr.rest, "/"), LAMBDA sl :
    chain(ipv6_numbits(sl.rest), LAMBDA bits :
        Done(bits.rest, [kind |-> "CIDR", addr |-> addr.val, prefix |-> bits.val]))))

ipv6_spec(input) == alt(ipv6_spec_cidr(input), ipv6_spec_addr(input))

addr_spec(input) ==
    alt(map(tag(input, "*"), LAMBDA w : [kind |-> "Wildcard"]),
    alt(map(ipv4_spec(input), LAMBDA v4 : [kind |-> "Ipv4", spec |-> v4]),
        map(ipv6_spec(input), LAMBDA v6 : [kind |-> "Ipv6", spec |-> v6])))

port_spec_range(input) ==
    chain(u16_digit(input), LAMBDA start :
    chain(tag(start.rest, "-"), LAMBDA dash :
    chain(u16_digit(dash.rest), LAMBDA end :
        Done(end.rest, [kind |-> "Range", start |-> start.val, end |-> end.val]))))

port_spec_port(input) ==
    map(u16_digit(input), LAMBDA d : [kind |-> "Port", port |-> d])

(* Variant: alt! in place of alt_complete!. *)
port_spec_alt(input) ==
    alt(port_spec_range(input),
    alt(port_spec_port(input),
        map(tag(input, "*"), LAMBDA w : [kind |-> "Wildcard"])))

(* alt_complete!: an Incomplete alternative counts as failed. *)
port_spec(input) ==
    alt(complete(port_spec_range(input)),
    alt(complete(port_spec_port(input)),
        complete(map(tag(input, "*"), LAMBDA w : [kind |-> "Wildcard"]))))

exit_pattern(input) ==
    chain(addr_spec(input), LAMBDA a :
    chain(tag(a.rest, ":"), LAMBDA co :
    chain(port_spec(co.rest), LAMBDA p :
        Done(p.rest, [addr |-> a.val, port |-> p.val]))))

parse_exit_pattern(i) == exit_pattern(i)

----------------------------------------------------------------------------
(* src/server_descriptor/mod.rs: the sub-grammars of the keyword lines *)

router(input) ==
    chain(alphanumeric(input), LAMBDA nickname :
    chain(space(nickname.rest), LAMBDA s1 :
    chain(ipv4_addr(s1.rest), LAMBDA address :
    chain(space(address.rest), LAMBDA s2 :
    chain(u16_digit(s2.rest), LAMBDA or_port :
    chain(space(or_port.rest), LAMBDA s3 :
    chain(u16_digit(s3.rest), LAMBDA socks_port :
    chain(space(socks_port.rest), LAMBDA s4 :
    chain(u16_digit(s4.rest), LAMBDA dir_port :
        Done(dir_port.rest,
             [nickname |-> nickname.val, address |-> address.val,
              or_port |-> or_port.val, socks_port |-> socks_port.val,
              dir_port |-> dir_port.val]))))))))))

bandwidth(input) ==
    chain(u64_digit(input), LAMBDA avg :
    chain(space(avg.rest), LAMBDA s1 :
    chain(u64_digit(s1.rest), LAMBDA bur :
    chain(space(bur.rest), LAMBDA s2 :
    chain(u64_digit(s2.rest), LAMBDA obs :
        Done(obs.rest, [avg |-> avg.val, bur |-> bur.val, obs |-> obs.val]))))))

uptime(input) == u64_digit(input)

----------------------------------------------------------------------------
(* src/server_descriptor/mod.rs: blocks and their aggregation *)

FramingLine == "@type server-descriptor 1.0"

(* many1!(item), after the first Item: the Items up to the end of input   *)
(* or the first Item that does not parse.                                 *)
RECURSIVE many_items_loop(_, _)
many_items_loop(input, res) ==
    with(item(input), LAMBDA r :
        IF r.t = "Incomplete" THEN Incomplete
        ELSE IF r.t = "Error" THEN Done(input, res)
        ELSE IF Len(r.rest) = Len(input) THEN Done(input, res)
        ELSE IF r.rest = "" THEN Done("", Append(res, r.val))
        ELSE many_items_loop(r.rest, Append(res, r.val)))

many1_item(input) ==
    chain(item(input), LAMBDA r :
        IF r.rest = "" THEN Done("", <<r.val>>)
        ELSE many_items_loop(r.rest, <<r.val>>))

server_descriptor_bucket(input) ==
    chain(tag(input, FramingLine), LAMBDA fr :
    chain(line_ending(fr.rest), LAMBDA nl :
        many1_item(nl.rest)))

RECURSIVE many_buckets_loop(_, _)
many_buckets_loop(input, res) ==
    with(server_descriptor_bucket(input), LAMBDA r :
        IF r.t = "Incomplete" THEN Incomplete
        ELSE IF r.t = "Error" THEN Done(input, res)
        ELSE IF Len(r.rest) = Len(input) THEN Done(input, res)
        ELSE IF r.rest = "" THEN Done("", Append(res, r.val))
        ELSE many_buckets_loop(r.rest, Append(res, r.val)))

(* many0!(server_descriptor_bucket) *)
server_descriptor_bucket_aggregator(input) ==
    IF input = "" THEN Done(input, <<>>)
    ELSE with(server_descriptor_bucket(input), LAMBDA r :
             IF r.t = "Error" THEN Done(input, <<>>)
             ELSE IF r.t = "Incomplete" THEN Incomplete
             ELSE IF r.rest = "" THEN Done("", <<r.val>>)
             ELSE many_buckets_loop(r.rest, <<r.val>>))

(* The text from its first framing line on. *)
FramingLineOffsets(text) ==
    {i \in 0..Len(text) :
        /\ Len(text) - i >= Len(FramingLine)
        /\ SubSeq(text, i + 1, i + Len(FramingLine)) = FramingLine}

FromFirstFramingLine(text) ==
    IF FramingLineOffsets(text) = {} THEN ""
    ELSE Drop(text, CHOOSE i \in FramingLineOffsets(text) :
                        \A j \in FramingLineOffsets(text) : i <= j)

(* An extraction that searches forward for the first framing line. *)
extract_all_item_buckets_searching(input) ==
    with(server_descriptor_bucket_aggregator(FromFirstFramingLine(input)), LAMBDA r :
        IF r.t = "Done" THEN r.val ELSE <<>>)

extract_all_item_buckets(input) ==
    with(server_descriptor_bucket_aggregator(input), LAMBDA r :
        IF r.t = "Done" THEN r.val ELSE <<>>)

----------------------------------------------------------------------------
(* src/server_descriptor/mod.rs: the dispatcher *)

(* Default::default() of ServerDescriptor *)
DefaultServerDescriptor ==
    [nickname |-> "", address |-> None,
     or_port |-> 0, socks_port |-> 0, dir_port |-> 0,
     identity_ed25519 |-> None, master_key_ed25519 |-> None,
     platform |-> None, protocols |-> None, published |-> None,
     fingerprint |-> None, uptime |-> None,
     bandwidth_avg |-> "0", bandwidth_burst |-> "0", bandwidth_observed |-> "0",
     extra_info_digest |-> None, onion_key |-> None, signing_key |-> None,
     hidden_service_dir |-> None, contact |-> None, ntor_onion_key |-> None,
     router_sig_ed25519 |-> None, router_signature |-> None,
     exit_policy |-> <<>>, unprocessed_items |-> <<>>]

(* The value of a loop body that panicked. *)
Panic == [panic |-> TRUE]

push_unprocessed(sd, it) ==
    [sd EXCEPT !.unprocessed_items = Append(@, it)]

(* A singleton_arg! that keeps the first value of a field and pushes a    *)
(* later Item of the same keyword.                                        *)
singleton_arg_first_wins(sd, it, field) ==
    IF it.args # None /\ Len(it.objs) = 0 /\ sd[field] = None
    THEN [sd EXCEPT ![field] = Some(it.args[1])]
    ELSE push_unprocessed(sd, it)

(* A singleton_arg! that does not look at the objects. *)
singleton_arg_any_objs(sd, it, field) ==
    IF it.args # None
    THEN [sd EXCEPT ![field] = Some(it.args[1])]
    ELSE push_unprocessed(sd, it)

singleton_arg(sd, it, field) ==
    IF it.args # None /\ Len(it.objs) = 0
    THEN [sd EXCEPT ![field] = Some(it.args[1])]
    ELSE push_unprocessed(sd, it)

(* A first_obj! that does not look at the arguments. *)
first_obj_any_args(sd, it, field) ==
    IF Len(it.objs) = 1
    THEN [sd EXCEPT ![field] = Some(it.objs[1])]
    ELSE push_unprocessed(sd, it)

(* A first_obj! that takes objs[0] without counting the objects. *)
first_obj_unguarded(sd, it, field) ==
    IF it.args = None
    THEN IF Len(it.objs) < 1 THEN Panic
         ELSE [sd EXCEPT ![field] = Some(it.objs[1])]
    ELSE push_unprocessed(sd, it)

first_obj(sd, it, field) ==
    IF it.args = None /\ Len(it.objs) = 1
    THEN IF Len(it.objs) < 1 THEN Panic
         ELSE [sd EXCEPT ![field] = Some(it.objs[1])]
    ELSE push_unprocessed(sd, it)

(* A handler that stores the SOCKS port and the directory port crosswise. *)
set_router_crossed(sd, r) ==
    [sd EXCEPT !.nickname = r.nickname, !.address = Some(r.address),
               !.or_port = r.or_port, !.socks_port = r.dir_port,
               !.dir_port = r.socks_port]

set_router(sd, r) ==
    [sd EXCEPT !.nickname = r.nickname, !.address = Some(r.address),
               !.or_port = r.or_port, !.socks_port = r.socks_port,
               !.dir_port = r.dir_port]

set_bandwidth(sd, r) ==
    [sd EXCEPT !.bandwidth_avg = r.avg, !.bandwidth_burst = r.bur,
               !.bandwidth_observed = r.obs]

set_uptime(sd, r) == [sd EXCEPT !.uptime = Some(r)]

(* A hidden-service-dir arm that insists on arguments. *)
set_hidden_service_dir_strict(sd, it) ==
    IF it.args # None THEN [sd EXCEPT !.hidden_service_dir = it.args]
    ELSE push_unprocessed(sd, it)

(* The hidden-service-dir arm: the arguments, present or not, are stored. *)
set_hidden_service_dir(sd, it) == [sd EXCEPT !.hidden_service_dir = it.args]

exit_rule(key) ==
    CASE key = "accept" -> "Accept"
      [] key = "reject" -> "Reject"
      [] OTHER -> "unreachable"

(* A push that puts the new pattern first. *)
push_exit_pattern_front(sd, rule, r) ==
    [sd EXCEPT !.exit_policy = <<[rule |-> rule, addr |-> r.addr, port |-> r.port]>> \o @]

push_exit_pattern(sd, rule, r) ==
    [sd EXCEPT !.exit_policy = Append(@, [rule |-> rule, addr |-> r.addr, port |-> r.port])]

sub_parser(name, args) ==
    CASE name = "router"    -> router(args)
      [] name = "bandwidth" -> bandwidth(args)
      [] name = "uptime"    -> uptime(args)
      [] name = "parse_exit_pattern" -> parse_exit_pattern(args)

results_handler(name, sd, it, res) ==
    CASE name = "router"    -> set_router(sd, res)
      [] name = "bandwidth" -> set_bandwidth(sd, res)
      [] name = "uptime"    -> set_uptime(sd, res)
      [] name = "parse_exit_pattern" -> push_exit_pattern(sd, exit_rule(it.key), res)

(* A use_parser! without the `continue`: an Item that was applied is     *)
(* pushed as well.                                                        *)
use_parser_fallthrough(sd, it, name) ==
    IF it.args # None /\ sub_parser(name, it.args[1]).t = "Done"
    THEN push_unprocessed(
             results_handler(name, sd, it, sub_parser(name, it.args[1]).val), it)
    ELSE push_unprocessed(sd, it)

(* A use_parser! that takes a match only when it leaves nothing. *)
use_parser_whole(sd, it, name) ==
    IF it.args # None /\ sub_parser(name, it.args[1]).t = "Done"
                     /\ sub_parser(name, it.args[1]).rest = ""
    THEN results_handler(name, sd, it, sub_parser(name, it.args[1]).val)
    ELSE push_unprocessed(sd, it)

(* A use_parser! that discards the Item its sub-grammar refuses. *)
use_parser_drop(sd, it, name) ==
    IF it.args # None /\ sub_parser(name, it.args[1]).t = "Done"
    THEN results_handler(name, sd, it, sub_parser(name, it.args[1]).val)
    ELSE sd

use_parser(sd, it, name) ==
    IF it.args # None /\ sub_parser(name, it.args[1]).t = "Done"
    THEN results_handler(name, sd, it, sub_parser(name, it.args[1]).val)
    ELSE push_unprocessed(sd, it)

(* A default arm that discards the Item. *)
unrecognized_dropped(sd, it) == sd

(* The default arm of the match: a keyword no other arm names. *)
unrecognized(sd, it) == push_unprocessed(sd, it)

(* One iteration of the loop of transmogrify: the match on item.key. *)
transmogrify_item(sd, it) ==
    CASE it.key = "platform"           -> singleton_arg(sd, it, "platform")
      [] it.key = "identity-ed25519"   -> first_obj(sd, it, "identity_ed25519")
      [] it.key = "master-key-ed25519" -> singleton_arg(sd, it, "master_key_ed25519")
      [] it.key = "protocols"          -> singleton_arg(sd, it, "protocols")
      [] it.key = "fingerprint"        -> singleton_arg(sd, it, "fingerprint")
      [] it.key = "published"          -> singleton_arg(sd, it, "published")
      [] it.key = "extra-info-digest"  -> singleton_arg(sd, it, "extra_info_digest")
      [] it.key = "onion-key"          -> first_obj(sd, it, "onion_key")
      [] it.key = "signing-key"        -> first_obj(sd, it, "signing_key")
      [] it.key = "contact"            -> singleton_arg(sd, it, "contact")
      [] it.key = "ntor-onion-key"     -> singleton_arg(sd, it, "ntor_onion_key")
      [] it.key = "router-sig-ed25519" -> singleton_arg(sd, it, "router_sig_ed25519")
      [] it.key = "router-signature"   -> first_obj(sd, it, "router_signature")
      [] it.key = "router"             -> use_parser(sd, it, "router")
      [] it.key = "bandwidth"          -> use_parser(sd, it, "bandwidth")
      [] it.key = "uptime"             -> use_parser(sd, it, "uptime")
      [] it.key = "hidden-service-dir" -> set_hidden_service_dir(sd, it)
      [] it.key \in {"accept", "reject"} ->
            IF exit_rule(it.key) = "unreachable" THEN Panic
            ELSE use_parser(sd, it, "parse_exit_pattern")
      [] OTHER -> unrecognized(sd, it)

(* transmogrify as a function: the loop over the first n Items. *)
RECURSIVE transmogrify_upto(_, _)
transmogrify_upto(item_bucket, n) ==
    IF n = 0 THEN DefaultServerDescriptor
    ELSE LET before == transmogrify_upto(item_bucket, n - 1)
         IN  IF before = Panic THEN Panic
             ELSE transmogrify_item(before, item_bucket[n])

transmogrify(item_bucket) == transmogrify_upto(item_bucket, Len(item_bucket))

----------------------------------------------------------------------------
(* Inputs *)

MaxItems == 2
MaxBlocks == 3

NL == "\n"

SampleObject == "-----BEGIN RSA PUBLIC KEY-----\nMIGJ/+A=\n-----END RSA PUBLIC KEY-----\n"

TextKeys ==
    {"platform", "protocols", "published", "fingerprint", "extra-info-digest",
     "contact", "ntor-onion-key", "master-key-ed25519", "router-sig-ed25519"}

ObjectKeys == {"onion-key", "signing-key", "identity-ed25519", "router-signature"}

ParsedKeys == {"router", "bandwidth", "uptime", "accept", "reject"}

RecognizedKeys == TextKeys \cup ObjectKeys \cup ParsedKeys \cup {"hidden-service-dir"}

UnknownKeys == {"x-foo", "Platform"}

(* What may follow a keyword: nothing, arguments, an object, or both. *)
Bare == NL
ArgsOnly == " v" \o NL
ObjectOnly == NL \o SampleObject
ArgsAndObject == " v" \o NL \o SampleObject

ItemShapes == {Bare, ArgsOnly, ObjectOnly, ArgsAndObject}

(* Every keyword in the shape its arm accepts and in one it refuses; one  *)
(* keyword of each kind in all four shapes.                               *)
ShapedItemTexts ==
    {k \o sh : k \in TextKeys, sh \in {ArgsOnly, ArgsAndObject}}
    \cup {k \o sh : k \in ObjectKeys, sh \in {ObjectOnly, ArgsAndObject}}
    \cup {k \o sh : k \in {"platform", "onion-key", "hidden-service-dir", "x-foo"},
                     sh \in ItemShapes}
    \cup {"Platform" \o ArgsOnly}

ParsedItemTexts ==
    {"router a 1.2.3.4 1 0 0\n", "router a 1.2.3.4 1 0\n",
     "router b 5.6.7.8 9 8 7\n",
     "bandwidth 1 2 3\n", "bandwidth 1 2\n",
     "uptime 5\n", "uptime x\n", "uptime\n",
     "reject 1.2.3.4:*\n", "accept *:22\n", "reject junk\n",
     "accept 1.2.3.4/8:*\n", "reject 1.2.3.4/33:*\n",
     "accept [1:2:3:4:5:6:7:8]/129:*\n"}

ItemTexts == ShapedItemTexts \cup ParsedItemTexts

Frame == FramingLine \o NL

(* The Item the grammar makes of a text that another block follows. *)
ItemOf(text) == item(text \o Frame).val

ItemVocab == {ItemOf(text) : text \in ItemTexts}

Buckets == UNION {[1..n -> ItemVocab] : n \in 1..MaxItems}

SampleSignature == "router-signature\n-----BEGIN SIGNATURE-----\nvKWl/+=\n-----END SIGNATURE-----\n"

BlockA == Frame \o "router a 1.2.3.4 1 0 0\nx-foo bar\n" \o SampleSignature

BlockB == Frame \o "router b 5.6.7.8 2 0 0\nreject 1.2.3.4:*\naccept *:22\nonion-key\n" \o SampleObject

(* A block with a line that is no keyword line after its first Item. *)
BlockBadLine == Frame \o "router g 6.6.6.6 7 0 0\n/bad\n" \o SampleSignature

(* A block with a keyword line made of a keyword and a space. *)
BlockBlankArgs == Frame \o "router h 3.3.3.3 8 0 0\nplatform \n" \o SampleSignature

(* Descriptor blocks: two well formed ones; one truncated inside the body *)
(* of its object and one right after the BEGIN line; one whose last Item  *)
(* has no object; one with a malformed keyword line; one without a        *)
(* framing line; one cut inside its framing line; one with a malformed    *)
(* line after its first Item; one with blank arguments.                   *)
BlockTexts ==
    {BlockA,
     BlockB,
     BlockBadLine,
     BlockBlankArgs,
     Frame \o "router c 9.9.9.9 3 0 0\nonion-key\n-----BEGIN RSA PUBLIC KEY-----\nMIGJ/+A=\n",
     Frame \o "router e 8.8.8.8 5 0 0\nonion-key\n-----BEGIN RSA PUBLIC KEY-----\n",
     Frame \o "router f 7.7.7.7 6 0 0\nuptime 5\n",
     Frame \o "/bad\n",
     "router d 4.4.4.4 4 0 0\n" \o SampleSignature,
     "@type server"}

RECURSIVE Concat(_)
Concat(texts) == IF texts = <<>> THEN "" ELSE Head(texts) \o Concat(Tail(texts))

BlockSeqs == UNION {[1..n -> BlockTexts] : n \in 0..MaxBlocks}

(* The buffers: the concatenations of up to MaxBlocks blocks, and every   *)
(* prefix of a well-formed block.                                         *)
Buffers ==
    {Concat(bs) : bs \in BlockSeqs} \cup {Take(BlockB, n) : n \in 0..Len(BlockB)}

----------------------------------------------------------------------------
(* The program as a state machine *)

VARIABLES
    call,      \* the entry point: "parse", "parse_all" or "transmogrify"
    input,     \* the text buffer given to parse or parse_all
    pc,        \* "start", "map", "loop", "done" or "panic"
    buckets,   \* the Item buckets to transmogrify, in order
    b,         \* the bucket transmogrify is called on
    idx,       \* the Item of that bucket the loop is at
    sd,        \* the record the loop is building
    out,       \* the records returned so far
    err,       \* the ParseError returned by parse, 0 if none
    res        \* the IResult of a grammar called on its own, None before

vars == <<call, input, pc, buckets, b, idx, sd, out, err, res>>

Init ==
    /\ call \in {"parse", "parse_all"}
    /\ input \in Buffers
    /\ pc = "start"
    /\ buckets = <<>>
    /\ b = 1
    /\ idx = 1
    /\ sd = DefaultServerDescriptor
    /\ out = <<>>
    /\ err = 0
    /\ res = None

(* The two ParseError values exchanged. *)
error_code_swapped(r) == IF r.t = "Error" THEN 2 ELSE 1

(* The ParseError of a bucket that is not Done. *)
error_code(r) == IF r.t = "Error" THEN 1 ELSE 2

(* parse: one block; a bucket that is not Done is an error. *)
Parse ==
    /\ pc = "start"
    /\ call = "parse"
    /\ LET r == server_descriptor_bucket(input)
       IN  IF r.t = "Done"
           THEN buckets' = <<r.val>> /\ pc' = "map" /\ err' = err
           ELSE buckets' = buckets /\ pc' = "done" /\ err' = error_code(r)
    /\ UNCHANGED <<call, input, b, idx, sd, out, res>>

(* parse_all: every bucket of the aggregator, transmogrified in order. *)
ParseAll ==
    /\ pc = "start"
    /\ call = "parse_all"
    /\ buckets' = extract_all_item_buckets(input)
    /\ pc' = IF buckets' = <<>> THEN "done" ELSE "map"
    /\ UNCHANGED <<call, input, b, idx, sd, out, err, res>>

(* A call of transmogrify that goes on with the record of the call before. *)
TransmogrifyEnterStale ==
    /\ pc = "map"
    /\ b <= Len(buckets)
    /\ sd' = sd
    /\ idx' = 1
    /\ pc' = "loop"
    /\ UNCHANGED <<call, input, buckets, b, out, err, res>>

(* transmogrify is called on the next bucket: sd starts as the default. *)
TransmogrifyEnter ==
    /\ pc = "map"
    /\ b <= Len(buckets)
    /\ sd' = DefaultServerDescriptor
    /\ idx' = 1
    /\ pc' = "loop"
    /\ UNCHANGED <<call, input, buckets, b, out, err, res>>

(* One iteration of `for item in item_bucket`. *)
TransmogrifyItem ==
    /\ pc = "loop"
    /\ idx <= Len(buckets[b])
    /\ LET r == transmogrify_item(sd, buckets[b][idx])
       IN  IF r = Panic
           THEN pc' = "panic" /\ UNCHANGED <<sd, idx>>
           ELSE sd' = r /\ idx' = idx + 1 /\ pc' = pc
    /\ UNCHANGED <<call, input, buckets, b, out, err, res>>

(* The loop is over: transmogrify returns sd. *)
TransmogrifyReturn ==
    /\ pc = "loop"
    /\ idx > Len(buckets[b])
    /\ out' = Append(out, sd)
    /\ b' = b + 1
    /\ pc' = IF b < Len(buckets) THEN "map" ELSE "done"
    /\ UNCHANGED <<call, input, buckets, idx, sd, err, res>>

Next == Parse \/ ParseAll \/ TransmogrifyEnter \/ TransmogrifyItem \/ TransmogrifyReturn

Spec == Init /\ [][Next]_vars

(* parse as a function of its input. *)
parse(input_text) ==
    with(server_descriptor_bucket(input_text), LAMBDA r :
        IF r.t = "Done" THEN [ok |-> transmogrify(r.val)]
        ELSE [err |-> error_code(r)])

(* transmogrify on its own, over every bucket of up to MaxItems Items. *)
InitT ==
    /\ call = "transmogrify"
    /\ input = ""
    /\ pc = "map"
    /\ buckets \in {<<bk>> : bk \in Buckets}
    /\ b = 1
    /\ idx = 1
    /\ sd = DefaultServerDescriptor
    /\ out = <<>>
    /\ err = 0
    /\ res = None

NextT == TransmogrifyEnter \/ TransmogrifyItem \/ TransmogrifyReturn

SpecT == InitT /\ [][NextT]_vars

----------------------------------------------------------------------------
(* The grammars called on their own *)

(* The decimal numeral of a natural number. *)
RECURSIVE Dec(_)
Dec(n) ==
    IF n < 10 THEN SubSeq("0123456789", n + 1, n + 1)
    ELSE Dec(n \div 10) \o Dec(n % 10)

(* The dotted-quad text of an IPv4 address. *)
Dotted(a) == Dec(a[1]) \o "." \o Dec(a[2]) \o "." \o Dec(a[3]) \o "." \o Dec(a[4])

(* An armored block: BEGIN line, base64 body, END line. *)
Armor(begin_type, body, end_type) ==
    "-----BEGIN " \o begin_type \o "-----\n" \o body
        \o "-----END " \o end_type \o "-----\n"

ArmorTypes == {"RSA PUBLIC KEY", "SIGNATURE"}
ArmorBodies == {"MIGJ/+A=\n", "MIGJ\nAbc=\n"}
ItemKeywords == {"onion-key", "x-foo"}
LineTails == {NL, " v" \o NL}

(* What follows an Item: the end of the input, the next Item, the next    *)
(* block.                                                                 *)
Followers == {"", "uptime 5\n", Frame}

(* Items with an armored block, the END type equal to the BEGIN type or   *)
(* not, and Items without one.                                            *)
ItemInputs ==
    {k \o t \o Armor(ty1, body, ty2) \o f :
        k \in ItemKeywords, t \in LineTails, ty1 \in ArmorTypes, ty2 \in ArmorTypes,
        body \in ArmorBodies, f \in Followers}
    \cup {k \o t \o f : k \in ItemKeywords, t \in LineTails, f \in Followers}

(* Exit patterns: the cases of test_exit_pattern and their neighbours. *)
XAddrs == {<<0, 0, 0, 0>>, <<169, 254, 0, 0>>, <<1, 2, 3, 4>>}
XBits == {0, 8, 16, 32}
XPorts == {0, 22, 666, 65535}
XRanges == {<<6660, 6697>>, <<1, 1>>, <<5, 1>>}

PortText(n) == Dec(n)
RangeText(r) == Dec(r[1]) \o "-" \o Dec(r[2])
PortTexts ==
    {"*"} \cup {PortText(n) : n \in XPorts} \cup {RangeText(r) : r \in XRanges}

CidrText(addr, bits) == addr \o "/" \o Dec(bits)
Ipv4Texts ==
    {Dotted(a) : a \in XAddrs}
    \cup {CidrText(Dotted(a), n) : a \in XAddrs, n \in XBits}

(* IPv6 addresses as their eight groups of hexadecimal digits. *)
Ipv6Groups ==
    {<<"2001", "0db8", "85a3", "0000", "0000", "8a2e", "0370", "7334">>,
     <<"0", "0", "0", "0", "0", "0", "0", "1">>,
     <<"ffff", "FFFF", "0", "0", "0", "0", "0", "a">>}
X6Bits == {0, 64, 128}

Bracketed(g) ==
    "[" \o g[1] \o ":" \o g[2] \o ":" \o g[3] \o ":" \o g[4] \o ":"
        \o g[5] \o ":" \o g[6] \o ":" \o g[7] \o ":" \o g[8] \o "]"

(* Seven and nine groups, zero-compressed forms, a group above ffff,      *)
(* missing brackets.                                                      *)
Ipv6Malformed ==
    {"[1:2:3:4:5:6:7]", "[1:2:3:4:5:6:7:8:9]",
     "[::1]", "[2001:db8::1]", "[1:2:3::6:7:8]",
     "[10000:0:0:0:0:0:0:1]", "[0:0:0:0:0:0:0:1ffff]",
     "2001:0db8:85a3:0000:0000:8a2e:0370:7334",
     "[1:2:3:4:5:6:7:8", "1:2:3:4:5:6:7:8]"}

Ipv6Texts ==
    {Bracketed(g) : g \in Ipv6Groups}
    \cup {CidrText(Bracketed(g), n) : g \in Ipv6Groups, n \in X6Bits}
    \cup Ipv6Malformed
    \cup {CidrText(m, 64) : m \in Ipv6Malformed}

ExitPatternInputs ==
    {a \o ":" \o p : a \in {"*"} \cup Ipv4Texts \cup Ipv6Texts, p \in PortTexts}

(* Digit runs around the limits of the three widths, with and without a   *)
(* leading zero, and what follows them.                                   *)
SmallRuns == {0, 7, 255, 256, 999, 65535, 65536, 70000}
BigRuns ==
    {"18446744073709551615", "18446744073709551616", "18446744073709551625",
     "28446744073709551615", "99999999999999999999", "100000000000000000000"}
ZeroPads == {"", "0"}
RunTails == {"", " 9", ".1", ":"}
DigitInputs ==
    {z \o r \o t : z \in ZeroPads,
                   r \in {Dec(n) : n \in SmallRuns} \cup BigRuns, t \in RunTails}

(* Arguments of router lines with numbers at and above the limits. *)
RouterOctets == {4, 255, 256}
RouterOrPorts == {9, 65535, 65536}
RouterArgsText(nickname, o, pt, socks, dir) ==
    nickname \o " " \o Dotted(<<1, 2, 3, o>>) \o " " \o Dec(pt)
        \o " " \o Dec(socks) \o " " \o Dec(dir)
RouterInputs ==
    {RouterArgsText(n, o, pt, s, d) :
        n \in {"a", "b"}, o \in RouterOctets, pt \in RouterOrPorts,
        s \in RouterOrPorts, d \in RouterOrPorts}

(* The router lines with these arguments. *)
RouterLine(args) == "router " \o args \o NL
RouterLineInputs == {RouterLine(args) : args \in RouterInputs}

(* Keyword lines: a keyword or none, what separates it from the rest of  *)
(* the line, the rest of the line, its terminator, and what follows.      *)
LineKeywords == {"", "a", "x-foo", "A-9", "-", "Platform"}
LineSeparators == {"", " ", "\t", " \t ", "_", "/"}
LineArgs == {"", "v", "v w ", "a\tb", "-----"}
LineTerminators == {"\n", "\r\n", ""}
LineFollowers == {"", "next 1\n"}
KeywordLineInputs ==
    {k \o sep \o a \o term \o f :
        k \in LineKeywords, sep \in LineSeparators, a \in LineArgs,
        term \in LineTerminators, f \in LineFollowers}

(* Lines of one keyword, some well formed and some not: for each line    *)
(* its text, the Item it makes, and the fields a well-formed one sets.    *)
SecondObject == Armor("RSA PUBLIC KEY", "Abc=\n", "RSA PUBLIC KEY")

PlatformLines ==
    {[text |-> "platform v\n", ok |-> TRUE, sets |-> [platform |-> Some("v")],
      it |-> [key |-> "platform", args |-> Some("v"), objs |-> <<>>]],
     [text |-> "platform w\n", ok |-> TRUE, sets |-> [platform |-> Some("w")],
      it |-> [key |-> "platform", args |-> Some("w"), objs |-> <<>>]],
     [text |-> "platform\n", ok |-> FALSE, sets |-> <<>>,
      it |-> [key |-> "platform", args |-> None, objs |-> <<>>]]}

RouterLines ==
    {[text |-> "router a 1.2.3.4 1 0 0\n", ok |-> TRUE,
      sets |-> [nickname |-> "a", address |-> Some(<<1, 2, 3, 4>>), or_port |-> 1,
                socks_port |-> 0, dir_port |-> 0],
      it |-> [key |-> "router", args |-> Some("a 1.2.3.4 1 0 0"), objs |-> <<>>]],
     [text |-> "router b 5.6.7.8 9 8 7\n", ok |-> TRUE,
      sets |-> [nickname |-> "b", address |-> Some(<<5, 6, 7, 8>>), or_port |-> 9,
                socks_port |-> 8, dir_port |-> 7],
      it |-> [key |-> "router", args |-> Some("b 5.6.7.8 9 8 7"), objs |-> <<>>]],
     [text |-> "router c\n", ok |-> FALSE, sets |-> <<>>,
      it |-> [key |-> "router", args |-> Some("c"), objs |-> <<>>]]}

BandwidthLines ==
    {[text |-> "bandwidth 1 2 3\n", ok |-> TRUE,
      sets |-> [bandwidth_avg |-> "1", bandwidth_burst |-> "2",
                bandwidth_observed |-> "3"],
      it |-> [key |-> "bandwidth", args |-> Some("1 2 3"), objs |-> <<>>]],
     [text |-> "bandwidth 7 8 9\n", ok |-> TRUE,
      sets |-> [bandwidth_avg |-> "7", bandwidth_burst |-> "8",
                bandwidth_observed |-> "9"],
      it |-> [key |-> "bandwidth", args |-> Some("7 8 9"), objs |-> <<>>]],
     [text |-> "bandwidth x\n", ok |-> FALSE, sets |-> <<>>,
      it |-> [key |-> "bandwidth", args |-> Some("x"), objs |-> <<>>]]}

OnionKeyLines ==
    {[text |-> "onion-key\n" \o SampleObject, ok |-> TRUE,
      sets |-> [onion_key |-> Some(SampleObject)],
      it |-> [key |-> "onion-key", args |-> None, objs |-> <<SampleObject>>]],
     [text |-> "onion-key\n" \o SecondObject, ok |-> TRUE,
      sets |-> [onion_key |-> Some(SecondObject)],
      it |-> [key |-> "onion-key", args |-> None, objs |-> <<SecondObject>>]],
     [text |-> "onion-key v\n", ok |-> FALSE, sets |-> <<>>,
      it |-> [key |-> "onion-key", args |-> Some("v"), objs |-> <<>>]]}

HiddenServiceDirLines ==
    {[text |-> "hidden-service-dir v\n", ok |-> TRUE,
      sets |-> [hidden_service_dir |-> Some("v")],
      it |-> [key |-> "hidden-service-dir", args |-> Some("v"), objs |-> <<>>]],
     [text |-> "hidden-service-dir w\n", ok |-> TRUE,
      sets |-> [hidden_service_dir |-> Some("w")],
      it |-> [key |-> "hidden-service-dir", args |-> Some("w"), objs |-> <<>>]],
     [text |-> "hidden-service-dir\n", ok |-> TRUE,
      sets |-> [hidden_service_dir |-> None],
      it |-> [key |-> "hidden-service-dir", args |-> None, objs |-> <<>>]]}

LineFamilies ==
    {PlatformLines, RouterLines, BandwidthLines, OnionKeyLines, HiddenServiceDirLines}

MaxRepeats == 3

(* Two to MaxRepeats lines of one keyword. *)
RepeatedLines ==
    UNION {[1..n -> fam] : n \in 2..MaxRepeats, fam \in LineFamilies}

RECURSIVE TextOfLines(_)
TextOfLines(ls) ==
    IF ls = <<>> THEN "" ELSE Head(ls).text \o TextOfLines(Tail(ls))

(* The block made of the lines and a signature. *)
BlockOfLines(ls) == Frame \o TextOfLines(ls) \o SampleSignature

RepeatInputs == {BlockOfLines(ls) : ls \in RepeatedLines}

(* Arguments the sub-grammars match, with the fields they set, and texts *)
(* that may come after them on the line.                                  *)
MatchedArgs ==
    {[key |-> "uptime", args |-> "12", sets |-> [uptime |-> Some("12")]],
     [key |-> "router", args |-> "a 1.2.3.4 1 0 0",
      sets |-> [nickname |-> "a", address |-> Some(<<1, 2, 3, 4>>), or_port |-> 1,
                socks_port |-> 0, dir_port |-> 0]],
     [key |-> "bandwidth", args |-> "1 2 3",
      sets |-> [bandwidth_avg |-> "1", bandwidth_burst |-> "2",
                bandwidth_observed |-> "3"]],
     [key |-> "accept", args |-> "*:22",
      sets |-> [exit_policy |->
                   <<[rule |-> "Accept", addr |-> [kind |-> "Wildcard"],
                      port |-> [kind |-> "Port", port |-> 22]]>>]],
     [key |-> "reject", args |-> "1.2.3.4/8:*",
      sets |-> [exit_policy |->
                   <<[rule |-> "Reject",
                      addr |-> [kind |-> "Ipv4",
                                spec |-> [kind |-> "CIDR", addr |-> <<1, 2, 3, 4>>,
                                          prefix |-> 8]],
                      port |-> [kind |-> "Wildcard"]]>>]],
     [key |-> "reject", args |-> "*:1-5",
      sets |-> [exit_policy |->
                   <<[rule |-> "Reject", addr |-> [kind |-> "Wildcard"],
                      port |-> [kind |-> "Range", start |-> 1, end |-> 5]]>>]]}

TrailingTexts == {"", "abc", " junk", "\tx y", ":", " 1 2 3"}

SubParsedLine(m, t) == m.key \o " " \o m.args \o t \o NL

TrailingTextInputs == {SubParsedLine(m, t) : m \in MatchedArgs, t \in TrailingTexts}

Tokenizers == {"u8_digit", "u16_digit", "u64_digit"}

GrammarInputs(name) ==
    CASE name = "item" -> ItemInputs
      [] name = "parse_exit_pattern" -> ExitPatternInputs
      [] name \in Tokenizers -> DigitInputs
      [] name = "router" -> RouterInputs
      [] name = "transmogrify" -> RouterLineInputs \cup TrailingTextInputs
      [] name = "keyword_line" -> KeywordLineInputs
      [] name = "parse" -> RepeatInputs

GrammarNames ==
    {"item", "parse_exit_pattern", "router", "transmogrify", "keyword_line", "parse"}
        \cup Tokenizers

InitG ==
    /\ call \in GrammarNames
    /\ input \in GrammarInputs(call)
    /\ pc = "start"
    /\ buckets = <<>>
    /\ b = 1
    /\ idx = 1
    /\ sd = DefaultServerDescriptor
    /\ out = <<>>
    /\ err = 0
    /\ res = None

(* item is called on the input. *)
CallItem ==
    /\ pc = "start"
    /\ call = "item"
    /\ res' = Some(item(input))
    /\ pc' = "done"
    /\ UNCHANGED <<call, input, buckets, b, idx, sd, out, err>>

(* parse_exit_pattern is called on the input. *)
CallExitPattern ==
    /\ pc = "start"
    /\ call = "parse_exit_pattern"
    /\ res' = Some(parse_exit_pattern(input))
    /\ pc' = "done"
    /\ UNCHANGED <<call, input, buckets, b, idx, sd, out, err>>

(* One of the decimal tokenizers is called on the input. *)
CallDigit ==
    /\ pc = "start"
    /\ call \in Tokenizers
    /\ res' = Some(CASE call = "u8_digit" -> u8_digit(input)
                      [] call = "u16_digit" -> u16_digit(input)
                      [] call = "u64_digit" -> u64_digit(input))
    /\ pc' = "done"
    /\ UNCHANGED <<call, input, buckets, b, idx, sd, out, err>>

(* router is called on the arguments of a router line. *)
CallRouter ==
    /\ pc = "start"
    /\ call = "router"
    /\ res' = Some(router(input))
    /\ pc' = "done"
    /\ UNCHANGED <<call, input, buckets, b, idx, sd, out, err>>

(* transmogrify is called on the bucket made of the Item of the line. *)
CallTransmogrify ==
    /\ pc = "start"
    /\ call = "transmogrify"
    /\ buckets' = <<(<<ItemOf(input)>>)>>
    /\ res' = Some(transmogrify(buckets'[1]))
    /\ pc' = "done"
    /\ UNCHANGED <<call, input, b, idx, sd, out, err>>

(* keyword_line is called on the input. *)
CallKeywordLine ==
    /\ pc = "start"
    /\ call = "keyword_line"
    /\ res' = Some(keyword_line(input))
    /\ pc' = "done"
    /\ UNCHANGED <<call, input, buckets, b, idx, sd, out, err>>

(* parse is called on the input. *)
CallParse ==
    /\ pc = "start"
    /\ call = "parse"
    /\ res' = Some(parse(input))
    /\ pc' = "done"
    /\ UNCHANGED <<call, input, buckets, b, idx, sd, out, err>>

NextG ==
    \/ CallItem
    \/ CallExitPattern
    \/ CallDigit
    \/ CallRouter
    \/ CallTransmogrify
    \/ CallKeywordLine
    \/ CallParse

SpecG == InitG /\ [][NextG]_vars

----------------------------------------------------------------------------
(* Properties *)

(* The Item the loop is about to process, when there is one. *)
AtItem == pc = "loop" /\ idx <= Len(buckets[b])

CurrentItem == buckets[b][idx]

IsExitItem(it) ==
    /\ it.key \in {"accept", "reject"}
    /\ it.args # None
    /\ parse_exit_pattern(it.args[1]).t = "Done"

ExitPatternOf(it) ==
    LET r == parse_exit_pattern(it.args[1]).val
    IN  [rule |-> IF it.key = "accept" THEN "Accept" ELSE "Reject",
         addr |-> r.addr, port |-> r.port]

(* The exit patterns of the Items of a bucket, in the order of the bucket. *)
ExitPatternsOf(items) ==
    LET exits == SelectSeq(items, IsExitItem)
    IN  [i \in 1..Len(exits) |-> ExitPatternOf(exits[i])]

(* C1: the exit policy of a record lists exactly the accept/reject Items  *)
(* of its bucket whose arguments parse as an exit pattern, in the order   *)
(* of the bucket: while the loop runs this holds of the Items processed   *)
(* so far, and it holds of every record returned.                         *)
ExitPolicyInDocumentOrder ==
    /\ pc = "loop" =>
          sd.exit_policy = ExitPatternsOf(SubSeq(buckets[b], 1, idx - 1))
    /\ \A k \in 1..Len(out) : out[k].exit_policy = ExitPatternsOf(buckets[k])

RuleNames(policy) == [i \in 1..Len(policy) |-> policy[i].rule]

(* A record returned for `reject 1.2.3.4:*` followed by `accept *:22`. *)
RejectThenAcceptReturned ==
    /\ pc = "done"
    /\ buckets = <<(<<ItemOf("reject 1.2.3.4:*\n"), ItemOf("accept *:22\n")>>)>>
    /\ Len(out) = 1
    /\ RuleNames(out[1].exit_policy) = <<"Reject", "Accept">>

(* C2: processing an Item whose keyword is not recognized appends the     *)
(* Item to unprocessed_items and changes nothing else of the record.      *)
UnknownKeywordOnlyUnprocessed ==
    [][AtItem /\ CurrentItem.key \notin RecognizedKeys
          => sd' = [sd EXCEPT !.unprocessed_items = Append(@, CurrentItem)]]_vars

(* An unknown Item was processed after an Item that set a field. *)
UnknownAfterField ==
    /\ pc = "loop"
    /\ idx = 3
    /\ buckets[b][2].key \notin RecognizedKeys
    /\ sd.platform = Some("v")
    /\ sd.unprocessed_items = <<buckets[b][2]>>

(* A block the block grammar accepts to its last character. *)
WellFormedBlock(blk) ==
    with(server_descriptor_bucket(blk), LAMBDA r : r.t = "Done" /\ r.rest = "")

(* The record of a block taken on its own. *)
RecordOfBlock(blk) == transmogrify(server_descriptor_bucket(blk).val)

ParseAllReturned == pc = "done" /\ call = "parse_all"

(* The records of the well-formed blocks of bs, in the order of bs. *)
RecordsOfWellFormed(bs) ==
    LET good == SelectSeq(bs, WellFormedBlock)
    IN  [i \in 1..Len(good) |-> RecordOfBlock(good[i])]

(* A block cut inside the armor of its object. *)
TruncatedMidArmor(blk) ==
    \E n \in 1..(Len(SampleObject) - 1) :
        /\ Len(blk) > n
        /\ SubSeq(blk, Len(blk) - n + 1, Len(blk)) = Take(SampleObject, n)
        /\ WellFormedBlock(blk \o Drop(SampleObject, n))

(* C3: for a buffer that is the concatenation of N blocks, M of them      *)
(* truncated inside the armor of an object and the others well formed,    *)
(* parse_all returns the N - M records of the well-formed blocks, in      *)
(* document order.                                                        *)
ParseAllSkipsMalformedBlocks ==
    ParseAllReturned =>
        \A bs \in BlockSeqs :
            (/\ Concat(bs) = input
             /\ \A k \in 1..Len(bs) : WellFormedBlock(bs[k]) \/ TruncatedMidArmor(bs[k]))
                => out = RecordsOfWellFormed(bs)

BeginsWithFrameAndItem(text) ==
    /\ Len(text) >= Len(Frame)
    /\ Take(text, Len(Frame)) = Frame
    /\ item(Drop(text, Len(Frame))).t = "Done"

(* The buffer ends in the middle of a construct: more input can make it   *)
(* begin with the framing line and an Item.                               *)
EndsMidConstruct(text) ==
    \E n \in 0..Len(BlockB) : BeginsWithFrameAndItem(text \o Drop(BlockB, n))

ParseReturned == pc = "done" /\ call = "parse"

(* C5: parse of a buffer that does not begin with the framing line and an *)
(* Item returns an error and no record; the error is Incomplete (2) when  *)
(* the buffer ends in the middle of a construct and Malformed (1)         *)
(* otherwise.                                                             *)
ParseErrorOnBadStart ==
    (ParseReturned /\ ~BeginsWithFrameAndItem(input)) =>
        /\ out = <<>>
        /\ err = IF EndsMidConstruct(input) THEN 2 ELSE 1

(* parse returned Malformed for a buffer whose first Item is malformed. *)
ParseReturnedMalformed ==
    /\ ParseReturned
    /\ input = Frame \o "/bad\n"
    /\ err = 1
    /\ out = <<>>

MaxIpv4Bits == 32
MaxIpv6Bits == 128

(* An exit pattern whose CIDR prefix length is out of range. *)
PrefixOutOfRange(p) ==
    \/ /\ p.addr.kind = "Ipv4"
       /\ p.addr.spec.kind = "CIDR"
       /\ p.addr.spec.prefix > MaxIpv4Bits
    \/ /\ p.addr.kind = "Ipv6"
       /\ p.addr.spec.kind = "CIDR"
       /\ p.addr.spec.prefix > MaxIpv6Bits

(* C6: an exit pattern whose CIDR prefix is longer than 32 bits (IPv4) or *)
(* 128 bits (IPv6) never enters exit_policy.                              *)
NoPrefixOutOfRangeInPolicy ==
    \A k \in 1..Len(sd.exit_policy) : ~PrefixOutOfRange(sd.exit_policy[k])

ObjectField(key) ==
    CASE key = "onion-key"        -> "onion_key"
      [] key = "signing-key"      -> "signing_key"
      [] key = "identity-ed25519" -> "identity_ed25519"
      [] key = "router-signature" -> "router_signature"

(* C7: an Item with an object keyword sets the field of the keyword to    *)
(* its object when it has exactly one object and no arguments, changing   *)
(* nothing else; in every other shape it is appended to unprocessed_items *)
(* and every field keeps its value.                                       *)
ObjectKeywordNeedsOneObjectNoArgs ==
    [][(AtItem /\ CurrentItem.key \in ObjectKeys) =>
          sd' = IF CurrentItem.args = None /\ Len(CurrentItem.objs) = 1
                THEN [sd EXCEPT ![ObjectField(CurrentItem.key)] = Some(CurrentItem.objs[1])]
                ELSE [sd EXCEPT !.unprocessed_items = Append(@, CurrentItem)]]_vars

(* onion-key with its object, then onion-key with stray arguments and     *)
(* another object: the field holds the first object, the second Item is   *)
(* unprocessed.                                                           *)
ObjectThenStrayArgs ==
    /\ pc = "loop"
    /\ idx = 3
    /\ buckets[b][1] = ItemOf("onion-key" \o ObjectOnly)
    /\ buckets[b][2] = ItemOf("onion-key" \o ArgsAndObject)
    /\ sd.onion_key = buckets[b][1].objs
    /\ sd.onion_key # None
    /\ sd.unprocessed_items = <<buckets[b][2]>>

TextField(key) ==
    CASE key = "platform"           -> "platform"
      [] key = "protocols"          -> "protocols"
      [] key = "published"          -> "published"
      [] key = "fingerprint"        -> "fingerprint"
      [] key = "extra-info-digest"  -> "extra_info_digest"
      [] key = "contact"            -> "contact"
      [] key = "ntor-onion-key"     -> "ntor_onion_key"
      [] key = "master-key-ed25519" -> "master_key_ed25519"
      [] key = "router-sig-ed25519" -> "router_sig_ed25519"

(* C8: an Item with a text keyword stores its arguments in the field of   *)
(* the keyword when it has arguments and no object, changing nothing      *)
(* else; without arguments or with an object it is appended to            *)
(* unprocessed_items and every field keeps its value.                     *)
TextKeywordNeedsArgsNoObject ==
    [][(AtItem /\ CurrentItem.key \in TextKeys) =>
          sd' = IF CurrentItem.args # None /\ Len(CurrentItem.objs) = 0
                THEN [sd EXCEPT ![TextField(CurrentItem.key)] = CurrentItem.args]
                ELSE [sd EXCEPT !.unprocessed_items = Append(@, CurrentItem)]]_vars

(* platform with arguments, then platform with arguments and an object:   *)
(* the field holds the first arguments, the second Item is unprocessed.   *)
TextThenStrayObject ==
    /\ pc = "loop"
    /\ idx = 3
    /\ buckets[b][1] = ItemOf("platform" \o ArgsOnly)
    /\ buckets[b][2] = ItemOf("platform" \o ArgsAndObject)
    /\ sd.platform = Some("v")
    /\ sd.unprocessed_items = <<buckets[b][2]>>

SubGrammar(key) ==
    CASE key = "router"    -> "router"
      [] key = "bandwidth" -> "bandwidth"
      [] key = "uptime"    -> "uptime"
      [] key \in {"accept", "reject"} -> "parse_exit_pattern"

(* The arguments of the Item are absent or refused by its sub-grammar. *)
ArgsRefused(it) ==
    \/ it.args = None
    \/ sub_parser(SubGrammar(it.key), it.args[1]).t # "Done"

(* C9: a router, bandwidth, uptime, accept or reject Item whose arguments *)
(* are absent or refused by the sub-grammar is appended to                *)
(* unprocessed_items, no field and no exit pattern changes, and the loop  *)
(* goes on with the next Item.                                            *)
RefusedArgsOnlyUnprocessed ==
    [][(AtItem /\ CurrentItem.key \in ParsedKeys /\ ArgsRefused(CurrentItem)) =>
          /\ sd' = [sd EXCEPT !.unprocessed_items = Append(@, CurrentItem)]
          /\ idx' = idx + 1
          /\ pc' = "loop"]_vars

(* A router line with a port missing, then `uptime 5`: the router fields  *)
(* keep their defaults, the router Item is unprocessed, uptime is set.    *)
RefusedRouterThenUptime ==
    /\ pc = "loop"
    /\ idx = 3
    /\ buckets[b][1] = ItemOf("router a 1.2.3.4 1 0\n")
    /\ buckets[b][2] = ItemOf("uptime 5\n")
    /\ sd.nickname = "" /\ sd.address = None /\ sd.or_port = 0
    /\ sd.unprocessed_items = <<buckets[b][1]>>
    /\ sd.uptime = Some("5")

(* C10: transmogrify never panics; until it has returned it is at a      *)
(* bucket and at an Item of it, or just past the last one, so that its    *)
(* next step can be taken; every iteration of the loop, whatever the      *)
(* Item, moves on to the next Item; and it returns one record per bucket, *)
(* after the last Item of the bucket.                                     *)
TransmogrifyTotal ==
    /\ [](pc # "panic")
    /\ [](pc = "map" => b <= Len(buckets))
    /\ [](pc = "loop" => b <= Len(buckets) /\ idx <= Len(buckets[b]) + 1)
    /\ [][AtItem => pc' = "loop" /\ idx' = idx + 1]_vars
    /\ [](pc = "done" => /\ Len(out) = Len(buckets)
                         /\ idx = Len(buckets[Len(buckets)]) + 1)

(* A record returned for an unknown Item followed by a router line the    *)
(* sub-grammar refuses.                                                   *)
MixedBucketReturned ==
    /\ pc = "done"
    /\ buckets = <<(<<ItemOf("x-foo" \o ArgsAndObject), ItemOf("router a 1.2.3.4 1 0\n")>>)>>
    /\ Len(out) = 1
    /\ out[1].unprocessed_items = buckets[1]

RouterNicknames == {"a", "b"}
RouterAddresses == {<<1, 2, 3, 4>>, <<5, 6, 7, 8>>}
RouterPorts == {0, 1, 7, 8, 9}
Numerals == {"1", "2", "3", "5"}

(* C11: a router Item with arguments `nickname ipv4 or_port socks_port    *)
(* dir_port` sets exactly these five fields to these values; a bandwidth  *)
(* Item with three numbers sets average, burst and observed in that       *)
(* order; an uptime Item with a number sets uptime; nothing else of the   *)
(* record changes, unprocessed_items included.                            *)
WellFormedArgsSetFields ==
    [][AtItem =>
        /\ CurrentItem.key = "router" =>
              \A n \in RouterNicknames, a \in RouterAddresses :
                \A op, sp, dp \in RouterPorts :
                  CurrentItem.args = Some(n \o " " \o Dotted(a) \o " " \o Dec(op)
                                            \o " " \o Dec(sp) \o " " \o Dec(dp))
                  => sd' = [sd EXCEPT !.nickname = n, !.address = Some(a),
                                      !.or_port = op, !.socks_port = sp,
                                      !.dir_port = dp]
        /\ CurrentItem.key = "bandwidth" =>
              \A x, y, z \in Numerals :
                  CurrentItem.args = Some(x \o " " \o y \o " " \o z)
                  => sd' = [sd EXCEPT !.bandwidth_avg = x, !.bandwidth_burst = y,
                                      !.bandwidth_observed = z]
        /\ CurrentItem.key = "uptime" =>
              \A x \in Numerals :
                  CurrentItem.args = Some(x) => sd' = [sd EXCEPT !.uptime = Some(x)]
    ]_vars

(* `router b 5.6.7.8 9 8 7` then `bandwidth 1 2 3` were processed. *)
RouterThenBandwidthSet ==
    /\ pc = "loop"
    /\ idx = 3
    /\ buckets[b][1] = ItemOf("router b 5.6.7.8 9 8 7\n")
    /\ buckets[b][2] = ItemOf("bandwidth 1 2 3\n")
    /\ sd.nickname = "b" /\ sd.address = Some(<<5, 6, 7, 8>>)
    /\ sd.or_port = 9 /\ sd.socks_port = 8 /\ sd.dir_port = 7
    /\ sd.bandwidth_avg = "1" /\ sd.bandwidth_burst = "2" /\ sd.bandwidth_observed = "3"
    /\ sd.unprocessed_items = <<>>

(* The arguments of a keyword line with the given tail. *)
ArgsOfTail(t) == IF t = NL THEN None ELSE Some(SubSeq(t, 2, Len(t) - 1))

(* C12: the object of an Item is the whole armored block as it stands in  *)
(* the input, from the BEGIN line through the END line and its line       *)
(* terminator, and the Item ends right after it.                          *)
ObjectIsWholeArmoredBlock ==
    (pc = "done" /\ call = "item") =>
        \A k \in ItemKeywords, t \in LineTails, ty \in ArmorTypes,
           body \in ArmorBodies, f \in Followers :
            input = k \o t \o Armor(ty, body, ty) \o f
            => res = Some(Done(f, [key |-> k, args |-> ArgsOfTail(t),
                                   objs |-> Some(Armor(ty, body, ty))]))

(* item returned for onion-key with a two-line body, another Item after. *)
ItemWithTwoLineBodyReturned ==
    /\ pc = "done"
    /\ call = "item"
    /\ input = "onion-key\n" \o Armor("RSA PUBLIC KEY", "MIGJ\nAbc=\n", "RSA PUBLIC KEY")
                  \o "uptime 5\n"
    /\ res # None
    /\ res[1].t = "Done"
    /\ res[1].rest = "uptime 5\n"
    /\ res[1].val.objs =
          <<"-----BEGIN RSA PUBLIC KEY-----\nMIGJ\nAbc=\n-----END RSA PUBLIC KEY-----\n">>

(* C14: a block whose END type differs from its BEGIN type is not         *)
(* accepted as the object of an Item.                                     *)
ObjectTypesMatch ==
    (pc = "done" /\ call = "item") =>
        \A k \in ItemKeywords, t \in LineTails, ty1 \in ArmorTypes, ty2 \in ArmorTypes,
           body \in ArmorBodies, f \in Followers :
            (input = k \o t \o Armor(ty1, body, ty2) \o f /\ ty1 # ty2)
            => ~(res[1].t = "Done" /\ res[1].val.objs # None)

(* C13: a hidden-service-dir Item sets hidden_service_dir to its          *)
(* arguments, absent when the keyword line has none, and changes nothing  *)
(* else: it is never added to unprocessed_items.                          *)
HiddenServiceDirNeverFails ==
    [][(AtItem /\ CurrentItem.key = "hidden-service-dir") =>
          /\ sd' = [sd EXCEPT !.hidden_service_dir = CurrentItem.args]
          /\ pc' = "loop"]_vars

(* hidden-service-dir alone on its line was processed after one with      *)
(* arguments: the field is absent again, nothing is unprocessed.          *)
BareHiddenServiceDirProcessed ==
    /\ pc = "loop"
    /\ idx = 3
    /\ buckets[b][1] = ItemOf("hidden-service-dir" \o ArgsOnly)
    /\ buckets[b][2] = ItemOf("hidden-service-dir" \o Bare)
    /\ buckets[b][2].args = None
    /\ sd.hidden_service_dir = None
    /\ sd.unprocessed_items = <<>>

(* A block with a grammar failure inside: a line that is no keyword line, *)
(* or an armored object cut before its END line.                          *)
GrammarFailureInside(blk) ==
    \/ blk \in {BlockBadLine, Frame \o "/bad\n"}
    \/ TruncatedMidArmor(blk)

(* C15: parse returns an error and no record for a buffer whose first     *)
(* block has a grammar failure inside, whatever follows the block and     *)
(* however many well-formed Items precede the failure.                    *)
ParseSurfacesGrammarFailure ==
    ParseReturned =>
        \A bs \in BlockSeqs :
            (Len(bs) >= 1 /\ Concat(bs) = input /\ GrammarFailureInside(bs[1]))
                => (err \in {1, 2} /\ out = <<>>)

OptionalTextFields ==
    {"platform", "protocols", "published", "fingerprint", "extra_info_digest",
     "contact", "ntor_onion_key", "master_key_ed25519", "router_sig_ed25519",
     "hidden_service_dir", "onion_key", "signing_key", "identity_ed25519",
     "router_signature"}

(* C16: in every record returned, an optional text field is absent or     *)
(* holds a non-empty text.                                                *)
NoEmptyTextField ==
    \A k \in 1..Len(out) : \A f \in OptionalTextFields : out[k][f] # Some("")

GoodAddrTexts == {"*"} \cup Ipv4Texts \cup {Bracketed(g) : g \in Ipv6Groups}

ExitPatternReturned == call = "parse_exit_pattern" /\ pc = "done"

(* The result is Done with nothing left and the given address part. *)
YieldsAddr(a) ==
    /\ res[1].t = "Done"
    /\ res[1].rest = ""
    /\ res[1].val.addr = a

(* C17: `a.b.c.d/n:<port>` yields Ipv4 CIDR{addr a.b.c.d, prefix n},       *)
(* `a.b.c.d:<port>` yields Ipv4 Addr(a.b.c.d), `*:<port>` yields Wildcard, *)
(* and each of them leaves no input unconsumed.                           *)
AddrSpecByOrderedChoice ==
    ExitPatternReturned =>
        \A p \in PortTexts :
            /\ input = "*:" \o p => YieldsAddr([kind |-> "Wildcard"])
            /\ \A a \in XAddrs :
                /\ input = Dotted(a) \o ":" \o p =>
                       YieldsAddr([kind |-> "Ipv4",
                                   spec |-> [kind |-> "Addr", addr |-> a]])
                /\ \A n \in XBits :
                       input = CidrText(Dotted(a), n) \o ":" \o p =>
                           YieldsAddr([kind |-> "Ipv4",
                                       spec |-> [kind |-> "CIDR", addr |-> a,
                                                 prefix |-> n]])

CidrWildcardPortReturned ==
    /\ ExitPatternReturned
    /\ input = "0.0.0.0/8:*"
    /\ res = Some(Done("", [addr |-> [kind |-> "Ipv4",
                                      spec |-> [kind |-> "CIDR",
                                                addr |-> <<0, 0, 0, 0>>,
                                                prefix |-> 8]],
                            port |-> [kind |-> "Wildcard"]]))

(* The result is Done with nothing left and the given port part. *)
YieldsPort(p) ==
    /\ res[1].t = "Done"
    /\ res[1].rest = ""
    /\ res[1].val.port = p

(* C18: after any well-formed address part, `A-B` yields Range with start *)
(* A and end B as read, `N` at the end of the input yields Port(N), and   *)
(* `*` yields Wildcard.                                                   *)
PortSpecByOrderedChoice ==
    ExitPatternReturned =>
        \A a \in GoodAddrTexts :
            /\ input = a \o ":*" => YieldsPort([kind |-> "Wildcard"])
            /\ \A n \in XPorts :
                   input = a \o ":" \o PortText(n) =>
                       YieldsPort([kind |-> "Port", port |-> n])
            /\ \A r \in XRanges :
                   input = a \o ":" \o RangeText(r) =>
                       YieldsPort([kind |-> "Range", start |-> r[1], end |-> r[2]])

RangeAsReadReturned ==
    /\ ExitPatternReturned
    /\ input = "*:6660-6697"
    /\ res = Some(Done("", [addr |-> [kind |-> "Wildcard"],
                            port |-> [kind |-> "Range", start |-> 6660,
                                      end |-> 6697]]))

(* The value of a group of hexadecimal digits. *)
HexGroupValue(g) ==
    CASE g = "2001" -> 8193 [] g = "0db8" -> 3512 [] g = "85a3" -> 34211
      [] g = "0000" -> 0 [] g = "8a2e" -> 35374 [] g = "0370" -> 880
      [] g = "7334" -> 29492 [] g = "0" -> 0 [] g = "1" -> 1 [] g = "a" -> 10
      [] g \in {"ffff", "FFFF"} -> 65535

GroupValues(g) == [k \in 1..8 |-> HexGroupValue(g[k])]

(* C19: eight groups between brackets yield an Ipv6 Addr, or CIDR when    *)
(* `/n` follows, with the eight components in order; seven or nine        *)
(* groups, a `::` form, a group above ffff or a missing bracket make the  *)
(* exit pattern fail.                                                     *)
Ipv6OnlyEightGroups ==
    ExitPatternReturned =>
        \A p \in PortTexts :
            /\ \A g \in Ipv6Groups :
                /\ input = Bracketed(g) \o ":" \o p =>
                       YieldsAddr([kind |-> "Ipv6",
                                   spec |-> [kind |-> "Addr",
                                             addr |-> GroupValues(g)]])
                /\ \A n \in X6Bits :
                       input = CidrText(Bracketed(g), n) \o ":" \o p =>
                           YieldsAddr([kind |-> "Ipv6",
                                       spec |-> [kind |-> "CIDR",
                                                 addr |-> GroupValues(g),
                                                 prefix |-> n]])
            /\ \A m \in Ipv6Malformed :
                   input \in {m \o ":" \o p, CidrText(m, 64) \o ":" \o p} =>
                       res[1].t # "Done"

EightGroupsReturned ==
    /\ ExitPatternReturned
    /\ input = "[2001:0db8:85a3:0000:0000:8a2e:0370:7334]:*"
    /\ res[1].t = "Done"
    /\ res[1].val.addr.spec.addr = <<8193, 3512, 34211, 0, 0, 35374, 880, 29492>>

DigitReturned == call \in Tokenizers /\ pc = "done"

(* The largest value of the width of a tokenizer that fits an integer. *)
WidthMax(name) == IF name = "u8_digit" THEN U8Max ELSE U16Max

(* C20: a tokenizer called on a digit run, with or without a leading      *)
(* zero, gives the value of the run and leaves what follows it when the   *)
(* value fits its width, and is an Error otherwise: above 255 for         *)
(* u8_digit, 65535 for u16_digit, 2^64 - 1 for u64_digit. router is an    *)
(* Error as soon as an octet is above 255 or a port above 65535.          *)
TokenizersRejectOverflow ==
    /\ DigitReturned =>
           \A z \in ZeroPads, t \in RunTails :
               /\ \A n \in SmallRuns :
                      input = z \o Dec(n) \o t =>
                          res[1] = IF call = "u64_digit" THEN Done(t, Dec(n))
                                   ELSE IF n <= WidthMax(call) THEN Done(t, n)
                                   ELSE Error
               /\ \A r \in BigRuns :
                      input = z \o r \o t =>
                          res[1] = IF call = "u64_digit" /\ r = U64MaxText
                                   THEN Done(t, r)
                                   ELSE Error
    /\ (call = "router" /\ pc = "done") =>
           \A n \in {"a", "b"}, o \in RouterOctets, pt \in RouterOrPorts,
              s \in RouterOrPorts, d \in RouterOrPorts :
               input = RouterArgsText(n, o, pt, s, d) =>
                   res[1] = IF o > U8Max \/ pt > U16Max \/ s > U16Max \/ d > U16Max
                            THEN Error
                            ELSE Done("", [nickname |-> n, address |-> <<1, 2, 3, o>>,
                                           or_port |-> pt, socks_port |-> s,
                                           dir_port |-> d])
    /\ (call = "transmogrify" /\ pc = "done") =>
           \A n \in {"a", "b"}, o \in RouterOctets, pt \in RouterOrPorts,
              s \in RouterOrPorts, d \in RouterOrPorts :
               input = RouterLine(RouterArgsText(n, o, pt, s, d)) =>
                   res[1] = IF o > U8Max \/ pt > U16Max \/ s > U16Max \/ d > U16Max
                            THEN [DefaultServerDescriptor EXCEPT
                                      !.unprocessed_items = buckets[1]]
                            ELSE [DefaultServerDescriptor EXCEPT
                                      !.nickname = n,
                                      !.address = Some(<<1, 2, 3, o>>),
                                      !.or_port = pt,
                                      !.socks_port = s,
                                      !.dir_port = d]

(* A router line with port 65536: no field is set, the Item is            *)
(* unprocessed.                                                           *)
OverflowingRouterLineUnprocessed ==
    /\ call = "transmogrify"
    /\ pc = "done"
    /\ input = "router a 1.2.3.4 65536 9 9\n"
    /\ res = Some([DefaultServerDescriptor EXCEPT
                       !.unprocessed_items =
                           <<[key |-> "router", args |-> Some("a 1.2.3.4 65536 9 9"),
                              objs |-> <<>>]>>])

(* The fields the arm of a keyword may assign. *)
FieldGroup(key) ==
    CASE key \in TextKeys   -> {TextField(key)}
      [] key \in ObjectKeys -> {ObjectField(key)}
      [] key = "router"     -> {"nickname", "address", "or_port", "socks_port", "dir_port"}
      [] key = "bandwidth"  -> {"bandwidth_avg", "bandwidth_burst", "bandwidth_observed"}
      [] key = "uptime"     -> {"uptime"}
      [] key = "hidden-service-dir" -> {"hidden_service_dir"}
      [] OTHER -> {}

(* The step leaves every field outside the set as it was. *)
OnlyFieldsChange(fields) ==
    \A f \in (DOMAIN sd) \ fields : sd'[f] = sd[f]

EffectOnFields ==
    /\ CurrentItem.key \in RecognizedKeys \ {"accept", "reject"}
    /\ OnlyFieldsChange(FieldGroup(CurrentItem.key))

EffectOnPolicy ==
    /\ CurrentItem.key \in {"accept", "reject"}
    /\ Len(sd'.exit_policy) = Len(sd.exit_policy) + 1
    /\ SubSeq(sd'.exit_policy, 1, Len(sd.exit_policy)) = sd.exit_policy
    /\ OnlyFieldsChange({"exit_policy"})

EffectOnUnprocessed ==
    sd' = [sd EXCEPT !.unprocessed_items = Append(@, CurrentItem)]

(* The Item is one its arm applies to the fields or to the policy. *)
Applied(it) ==
    \/ it.key \in TextKeys /\ it.args # None /\ Len(it.objs) = 0
    \/ it.key \in ObjectKeys /\ it.args = None /\ Len(it.objs) = 1
    \/ it.key \in ParsedKeys /\ ~ArgsRefused(it)
    \/ it.key = "hidden-service-dir"

NotApplied(it) == ~Applied(it)

(* The Items of the current bucket the loop has gone through. *)
ItemsDone == SubSeq(buckets[b], 1, idx - 1)

(* C21: each iteration of the loop has exactly one effect: the fields of  *)
(* the arm of the keyword, or one more entry in exit_policy, or the Item  *)
(* appended to unprocessed_items. Throughout the loop unprocessed_items   *)
(* is the sequence of the Items gone through that were not applied, in    *)
(* the order of the bucket, so the Items gone through are as many as the  *)
(* applied ones plus the length of unprocessed_items; the same holds of   *)
(* the record returned for the bucket.                                    *)
EachItemHasOneEffect ==
    /\ [][AtItem =>
            /\ EffectOnFields \/ EffectOnPolicy \/ EffectOnUnprocessed
            /\ ~(EffectOnFields /\ EffectOnUnprocessed)
            /\ ~(EffectOnPolicy /\ EffectOnUnprocessed)
            /\ Applied(CurrentItem) <=> ~EffectOnUnprocessed]_vars
    /\ [](pc = "loop" =>
            /\ sd.unprocessed_items = SelectSeq(ItemsDone, NotApplied)
            /\ Len(ItemsDone)
                   = Len(SelectSeq(ItemsDone, Applied)) + Len(sd.unprocessed_items))
    /\ [](pc = "done" =>
            \A k \in 1..Len(out) :
                out[k].unprocessed_items = SelectSeq(buckets[k], NotApplied))

(* Two Items that are not applied, in the order of the bucket. *)
TwoUnprocessedInOrder ==
    /\ pc = "done"
    /\ buckets = <<(<<ItemOf("uptime x\n"), ItemOf("x-foo" \o ArgsOnly)>>)>>
    /\ out[1].unprocessed_items = buckets[1]

KeywordChars == AlphaNum \cup {"-"}

(* Every character of s is in cs. *)
AllIn(s, cs) == \A i \in 1..Len(s) : SubSeq(s, i, i) \in cs

(* s begins with p. *)
StartsWith(s, p) == Len(s) >= Len(p) /\ SubSeq(s, 1, Len(p)) = p

KeywordLineReturned == call = "keyword_line" /\ pc = "done"

(* The input is key, a non-empty run of spaces and tabs, args, a line     *)
(* feed and rest, and args neither begins with a space or a tab nor holds *)
(* a line terminator.                                                     *)
SplitsWithArgs(key, args, rest) ==
    \E n \in 1..Len(input) :
        /\ Len(input) >= Len(key) + n
        /\ AllIn(SubSeq(input, Len(key) + 1, Len(key) + n), SpaceChars)
        /\ input = SubSeq(input, 1, Len(key) + n) \o args \o "\n" \o rest
        /\ StartsWith(input, key)
        /\ (args = "" \/ SubSeq(args, 1, 1) \notin SpaceChars)
        /\ \A i \in 1..Len(args) : SubSeq(args, i, i) \notin LineEndChars

(* C22: when keyword_line accepts, the keyword is a non-empty run of      *)
(* keyword characters at the start of the input; the arguments are absent *)
(* exactly when the line feed comes right after the keyword, and are      *)
(* otherwise the text between the first run of spaces and tabs and the    *)
(* line feed. A well-formed line is accepted with these values, and an    *)
(* input that does not begin with a keyword character is not accepted.    *)
KeywordLineShape ==
    KeywordLineReturned =>
        /\ res[1].t = "Done" =>
               /\ res[1].val.key # ""
               /\ AllIn(res[1].val.key, KeywordChars)
               /\ StartsWith(input, res[1].val.key)
               /\ res[1].val.args = None
                      <=> SubSeq(input, Len(res[1].val.key) + 1,
                                 Len(res[1].val.key) + 1) = "\n"
               /\ res[1].val.args = None
                      => input = res[1].val.key \o "\n" \o res[1].rest
               /\ res[1].val.args # None
                      => SplitsWithArgs(res[1].val.key, res[1].val.args[1],
                                        res[1].rest)
        /\ \A k \in LineKeywords \ {""}, f \in LineFollowers :
               /\ input = k \o "\n" \o f
                      => res[1] = Done(f, [key |-> k, args |-> None])
               /\ \A sep \in {" ", "\t", " \t "}, a \in LineArgs :
                      input = k \o sep \o a \o "\n" \o f
                          => res[1] = Done(f, [key |-> k, args |-> Some(a)])
        /\ (input = "" \/ SubSeq(input, 1, 1) \notin KeywordChars)
               => res[1].t # "Done"

(* A keyword, a space and a tab, arguments with a space inside, and the   *)
(* next line after the line feed.                                         *)
KeywordLineWithArgsReturned ==
    /\ KeywordLineReturned
    /\ input = "x-foo \t v w \nnext 1\n"
    /\ res = Some(Done("next 1\n", [key |-> "x-foo", args |-> Some("v w ")]))

ParseReturnedG == call = "parse" /\ pc = "done"

(* The positions of the well-formed lines. *)
WellFormedAt(ls) == {i \in 1..Len(ls) : ls[i].ok}

(* The greatest element of a non-empty set of numbers. *)
Greatest(S) == CHOOSE m \in S : \A i \in S : i <= m

IsMalformedLine(l) == ~l.ok

RECURSIVE ItemsOfLines(_)
ItemsOfLines(ls) ==
    IF ls = <<>> THEN <<>> ELSE <<Head(ls).it>> \o ItemsOfLines(Tail(ls))

(* The record of a block of lines of one keyword: the fields of the last  *)
(* well-formed line, the Items of the malformed lines, the signature, and *)
(* defaults everywhere else.                                              *)
LastWellFormedWins(ls) ==
    LET last == IF WellFormedAt(ls) = {} THEN <<>>
                ELSE ls[Greatest(WellFormedAt(ls))].sets
    IN  [f \in DOMAIN DefaultServerDescriptor |->
            IF f \in DOMAIN last THEN last[f]
            ELSE IF f = "unprocessed_items"
                 THEN ItemsOfLines(SelectSeq(ls, IsMalformedLine))
            ELSE IF f = "router_signature"
                 THEN Some(SubSeq(SampleSignature, Len("router-signature\n") + 1,
                                  Len(SampleSignature)))
            ELSE DefaultServerDescriptor[f]]

(* C23: for two or more lines of one single-valued keyword in a block,    *)
(* the record holds the value of the last well-formed line, the earlier   *)
(* well-formed lines are neither kept nor in unprocessed_items, and a     *)
(* hidden-service-dir line without arguments resets the field to absent.  *)
LastOccurrenceOverwrites ==
    ParseReturnedG =>
        \A ls \in RepeatedLines :
            input = BlockOfLines(ls) => res[1] = [ok |-> LastWellFormedWins(ls)]

(* platform v, a malformed platform line, platform w: the record has w    *)
(* and only the malformed line is unprocessed.                            *)
OverwrittenPlatformReturned ==
    /\ ParseReturnedG
    /\ input = Frame \o "platform v\nplatform\nplatform w\n" \o SampleSignature
    /\ res[1].ok.platform = Some("w")
    /\ res[1].ok.unprocessed_items
           = <<[key |-> "platform", args |-> None, objs |-> <<>>]>>

(* C24: a router, bandwidth, uptime, accept or reject line whose          *)
(* arguments begin with a match of the sub-grammar sets the fields, or    *)
(* appends the pattern, of the match, whatever text follows it on the     *)
(* line, and the Item is not in unprocessed_items.                        *)
MatchedPrefixIsAccepted ==
    (call = "transmogrify" /\ pc = "done") =>
        \A m \in MatchedArgs, t \in TrailingTexts :
            input = SubParsedLine(m, t) =>
                res[1] = [f \in DOMAIN DefaultServerDescriptor |->
                             IF f \in DOMAIN m.sets THEN m.sets[f]
                             ELSE DefaultServerDescriptor[f]]

(* `uptime 12abc` sets uptime to 12. *)
UptimeWithTrailingTextSet ==
    /\ call = "transmogrify"
    /\ pc = "done"
    /\ input = "uptime 12abc\n"
    /\ buckets = <<(<<[key |-> "uptime", args |-> Some("12abc"), objs |-> <<>>]>>)>>
    /\ res[1].uptime = Some("12")
    /\ res[1].unprocessed_items = <<>>

(* The records of the first n blocks read one after the other from the    *)
(* start of the text, up to the first that the block grammar refuses.     *)
RECURSIVE LeadingRecords(_, _)
LeadingRecords(text, n) ==
    IF n = 0 THEN <<>>
    ELSE with(server_descriptor_bucket(text), LAMBDA r :
             IF r.t # "Done" THEN <<>>
             ELSE <<transmogrify(r.val)>> \o LeadingRecords(r.rest, n - 1))

(* Well-formed blocks and then a block cut inside the armor of its        *)
(* object, at the end of the buffer.                                      *)
EndsInsideBlock(bs) ==
    /\ Len(bs) >= 1
    /\ TruncatedMidArmor(bs[Len(bs)])
    /\ \A k \in 1..(Len(bs) - 1) : WellFormedBlock(bs[k])

(* C25: the records parse_all returns are those of a run of blocks read   *)
(* one after the other from offset 0; a buffer that does not begin with   *)
(* the framing line gives no record, whatever blocks come later; and      *)
(* when the aggregator is not Done, as for a buffer that ends inside a    *)
(* block, no record is returned, not even for the blocks before.          *)
ParseAllReturnsLeadingRun ==
    ParseAllReturned =>
        /\ \E n \in 0..MaxBlocks : out = LeadingRecords(input, n)
        /\ ~StartsWith(input, FramingLine) => out = <<>>
        /\ server_descriptor_bucket_aggregator(input).t # "Done" => out = <<>>
        /\ \A bs \in BlockSeqs :
               (Concat(bs) = input /\ EndsInsideBlock(bs)) => out = <<>>

(* A block without framing line, then BlockA: nothing is returned. *)
LateBlockNotFound ==
    /\ ParseAllReturned
    /\ input = "router d 4.4.4.4 4 0 0\n" \o SampleSignature \o BlockA
    /\ out = <<>>

====
